---- MODULE Spec2Model ----
(***************************************************************************)
(* A model of the semantic router: NewRouter and Router.Match of route.go, *)
(* the scoring options, and the in-memory store of stores/memory/memory.go.*)
(*                                                                         *)
(* Embeddings are vectors of integers: the dot product and the Manhattan   *)
(* distance of integer vectors are integers, so every score of the model   *)
(* is the exact value the float64 arithmetic of the code yields on them.   *)
(***************************************************************************)
EXTENDS Integers, Sequences, FiniteSets, TLC

\* ---------------------------------------------------------------- bounds
MaxRoutes == 2
MaxUtter == 2
MaxMetrics == 2
NumProcs == 2

\* ---------------------------------------------------------------- inputs
\* Texts of the utterances of the corpus, and the texts a caller may query.
UtterTexts == {"hi", "yo", "x"}
QueryTexts == {"hi", "ok"}
\* Route names; the code accepts the empty name.
RouteNames == {"a", "b", ""}
\* Coefficients a caller passes to a scoring option.
Coefs == {1, -1}
\* The similarity functions of the model (the integer-valued ones).
Funcs == {"SimilarityDotMatrix", "ManhattanDistance"}

VARIABLES router, store, last, mu, pc, arg, ret

vars == <<router, store, last, mu, pc, arg, ret>>
routerVars == <<router, last>>
procVars == <<mu, pc, arg, ret>>

Procs == 1..NumProcs

\* ---------------------------------------------------------------- values
NoRouter == [Routes |-> <<>>, biFuncCoefficients |-> <<>>, built |-> FALSE]
ErrNil == [kind |-> "nil", text |-> ""]
NoVec == <<>>
NoArg == [key |-> "", vec |-> NoVec]

Range(s) == {s[i] : i \in DOMAIN s}
IsInjective(s) == \A i, j \in DOMAIN s : s[i] = s[j] => i = j

\* domain.Utterance: the text and its embedding (unset until SetEmbedding).
Utterance(t) == [Utterance |-> t, Embed |-> NoVec]

UtterSeqs == UNION {{[i \in 1..n |-> Utterance(ts[i])] : ts \in {f \in [1..n -> UtterTexts] : IsInjective(f)}} : n \in 1..MaxUtter}

\* Route: a name and its utterances.
Route == [Name : RouteNames, Utterances : UtterSeqs]

RECURSIVE Flatten(_)
\* The utterances of the routes in scan order: route order, then utterance
\* order within a route; each with the name of the route owning it.
Flatten(routes) ==
    IF routes = <<>> THEN <<>>
    ELSE [i \in DOMAIN Head(routes).Utterances |->
              [route |-> Head(routes).Name,
               text |-> Head(routes).Utterances[i].Utterance]]
         \o Flatten(Tail(routes))

TextsOf(routes) == [i \in DOMAIN Flatten(routes) |-> Flatten(routes)[i].text]

NamesOf(routes) == [i \in DOMAIN routes |-> routes[i].Name]

\* Route names are interchangeable except for the empty one: the first
\* named route of a list is "a", the next one "b".
NamedInOrder(names) == \A i \in DOMAIN names : names[i] = "b" => \E j \in 1..(i - 1) : names[j] = "a"

\* The route lists given to NewRouter: distinct names, distinct texts.
RouteLists == UNION {{rl \in [1..m -> Route] : /\ IsInjective(NamesOf(rl)) /\ NamedInOrder(NamesOf(rl)) /\ IsInjective(TextsOf(rl))} : m \in 1..MaxRoutes}

\* biFuncCoefficient: a similarity function and its coefficient.
biFuncCoefficient == [Func : Funcs, Coefficient : Coefs]

\* An Option is identified by the pair it appends.
OptLists == UNION {[1..n -> biFuncCoefficient] : n \in 0..MaxMetrics}

\* ------------------------------------------------------ embedding port
\* Encoder.Encode of a deterministic encoder: a fixed table from text to
\* vector, of mixed dimensionality.
Encode(t) ==
    CASE t = "hi" -> <<1, 0>>
      [] t = "yo" -> <<0, 1>>
      [] t = "ok" -> <<1, 1>>
      [] t = "x"  -> <<2>>

\* A call of the port under a context: it fails on a backend fault, and an
\* encoder that honours its context fails when the context is done.
EncoderEncode(ctxDone, fault, t) ==
    IF fault \/ ctxDone
    THEN [ok |-> FALSE, vec |-> NoVec]
    ELSE [ok |-> TRUE, vec |-> Encode(t)]

\* ------------------------------------------------------ in-memory store
\* NewStore: an empty, non-nil map.
NewStore == [isNil |-> FALSE, m |-> [k \in {} |-> NoVec]]

\* Store.Get: the context is ignored; a key absent from the map (or a nil
\* map) is an error.
MemGet(st, ctxDone, key) ==
    IF ~st.isNil /\ key \in DOMAIN st.m
    THEN [ok |-> TRUE, vec |-> st.m[key]]
    ELSE [ok |-> FALSE, vec |-> NoVec]

\* Store.Set's map assignment s.store[utterance.Utterance] = utterance.Embed
MemSet(st, key, vec) ==
    [st EXCEPT !.m = [k \in DOMAIN st.m \cup {key} |-> IF k = key THEN vec ELSE st.m[k]]]

\* Store.Close's assignment s.store = nil
MemClose(st) == [isNil |-> TRUE, m |-> [k \in {} |-> NoVec]]

\* --------------------------------------------------- similarity functions
RECURSIVE SimilarityDotMatrix(_, _)
SimilarityDotMatrix(queryVec, indexVec) ==
    IF queryVec = <<>> \/ indexVec = <<>> THEN 0
    ELSE Head(queryVec) * Head(indexVec)
         + SimilarityDotMatrix(Tail(queryVec), Tail(indexVec))

Abs(n) == IF n < 0 THEN -n ELSE n

RECURSIVE ManhattanDistance(_, _)
ManhattanDistance(queryVec, indexVec) ==
    IF queryVec = <<>> \/ indexVec = <<>> THEN 0
    ELSE Abs(Head(queryVec) - Head(indexVec))
         + ManhattanDistance(Tail(queryVec), Tail(indexVec))

\* fn.Func(queryVec, indexVec)
CallFunc(fn, queryVec, indexVec) ==
    IF fn.Func = "SimilarityDotMatrix"
    THEN SimilarityDotMatrix(queryVec, indexVec)
    ELSE ManhattanDistance(queryVec, indexVec)

RECURSIVE sumScores(_, _, _)
\* The loop of computeScore: score += fn.Coefficient * fn.Func(q, index)
sumScores(fns, queryVec, indexVec) ==
    IF fns = <<>> THEN 0
    ELSE Head(fns).Coefficient * CallFunc(Head(fns), queryVec, indexVec)
         + sumScores(Tail(fns), queryVec, indexVec)

\* computeScore with the score starting at 1 instead of 0.
computeScoreFromOne(fns, queryVec, indexVec) == 1 + sumScores(fns, queryVec, indexVec)

\* computeScore with the absolute value of every coefficient.
computeScoreUnsigned(fns, queryVec, indexVec) ==
    0 + sumScores([k \in DOMAIN fns |-> [fns[k] EXCEPT !.Coefficient = Abs(@)]],
                  queryVec, indexVec)

\* Router.computeScore: score := 0.0, then the loop.
computeScore(fns, queryVec, indexVec) == 0 + sumScores(fns, queryVec, indexVec)

\* ------------------------------------------------------------ NewRouter
\* store.Store(ctx, utter) of the store port: a backend fault fails the call
\* and writes nothing; otherwise the in-memory store's assignment.
StorageStore(st, fault, key, vec) ==
    IF fault THEN [ok |-> FALSE, st |-> st]
    ELSE [ok |-> TRUE, st |-> MemSet(st, key, vec)]

\* calls: the port calls of the construction so far, in the order made.
BuildStart(st) ==
    [err |-> ErrNil, st |-> st, encodeCalls |-> <<>>, storeCalls |-> <<>>, writes |-> <<>>,
     calls |-> <<>>]

\* Lines 128-136: a failed store call returns the error carrying the
\* utterance text.
afterStore(acc, text, put) ==
    IF ~put.ok
    THEN [acc EXCEPT !.err = [kind |-> "storing", text |-> text],
                     !.storeCalls = Append(@, text),
                     !.calls = Append(@, [port |-> "Store", text |-> text])]
    ELSE [acc EXCEPT !.st = put.st,
                     !.storeCalls = Append(@, text),
                     !.calls = Append(@, [port |-> "Store", text |-> text]),
                     !.writes = Append(@, text)]

\* utter.SetEmbedding(en): the utterance it is called on carries en.
SetEmbedding(utter, en) == [utter EXCEPT !.Embed = en]

\* Line 128: store.Store(ctx, utter), of the loop's utterance.
storeUtter(faults, acc, i, utter) ==
    afterStore(acc, utter.Utterance,
               StorageStore(acc.st, faults.storeFailAt = i, utter.Utterance, utter.Embed))

\* The loop's turn without the SetEmbedding call.
afterBuildEncodeUnset(faults, acc, text, i, en) ==
    IF ~en.ok
    THEN [acc EXCEPT !.err = [kind |-> "encoding", text |-> ""]]
    ELSE storeUtter(faults, acc, i, Utterance(text))

\* Lines 119-128: a failed encoding returns an error wrapping the cause
\* only. utter is the range loop's own copy of the utterance: SetEmbedding
\* sets the copy, the store is given the copy, and the element of
\* route.Utterances stays as it was.
afterBuildEncode(faults, acc, text, i, en) ==
    IF ~en.ok
    THEN [acc EXCEPT !.err = [kind |-> "encoding", text |-> ""]]
    ELSE storeUtter(faults, acc, i, SetEmbedding(Utterance(text), en.vec))

\* One turn of NewRouter's inner loop for the i-th utterance (in route
\* order, then utterance order): encode, then store. The context is
\* context.Background(), which is never done.
newRouterTurn(faults, acc, text, i) ==
    afterBuildEncode(faults,
                     [acc EXCEPT !.encodeCalls = Append(@, text),
                                 !.calls = Append(@, [port |-> "Encode", text |-> text])],
                     text, i,
                     EncoderEncode(FALSE, faults.encFailAt = i, text))

\* The loop's turn with the failures recorded but not returned.
newRouterStepNoReturn(faults, acc, text, i) == newRouterTurn(faults, acc, text, i)

\* A turn of the loop; after a return no turn runs.
newRouterStep(faults, acc, text, i) ==
    IF acc.err # ErrNil THEN acc ELSE newRouterTurn(faults, acc, text, i)

RECURSIVE newRouterLoop(_, _, _, _)
newRouterLoop(faults, acc, texts, i) ==
    IF i > Len(texts) THEN acc
    ELSE newRouterLoop(faults, newRouterStep(faults, acc, texts[i], i), texts, i + 1)

\* The Router NewRouter returns: Routes, Encoder and Storage are set, the
\* options are not applied.
newRouterResult(routes, opts) ==
    [Routes |-> routes, biFuncCoefficients |-> <<>>, built |-> TRUE]

\* The fault schedules of one construction: no fault, or the embedding port
\* or the store port failing at the k-th utterance.
BuildFaults(n) ==
    {[encFailAt |-> 0, storeFailAt |-> 0]}
    \cup {[encFailAt |-> k, storeFailAt |-> 0] : k \in 1..n}
    \cup {[encFailAt |-> 0, storeFailAt |-> k] : k \in 1..n}

\* store := memory.NewStore(); router, err := NewRouter(routes, enc, store, opts...)
\* The program constructs its Router once, at startup.
NewRouter ==
    /\ last.op = "none"
    /\ \E routes \in RouteLists, opts \in OptLists :
       \E faults \in BuildFaults(Len(TextsOf(routes))) :
        \E res \in {newRouterLoop(faults, BuildStart(NewStore), TextsOf(routes), 1)} :
            /\ router' = IF res.err = ErrNil THEN newRouterResult(routes, opts) ELSE NoRouter
            /\ store' = res.st
            /\ last' = [op |-> "NewRouter", routes |-> routes, opts |-> opts,
                        faults |-> faults, err |-> res.err,
                        encodeCalls |-> res.encodeCalls,
                        storeCalls |-> res.storeCalls, writes |-> res.writes,
                        calls |-> res.calls]
            /\ UNCHANGED procVars

\* An Option applied to the Router: one pair appended to the metric list.
WithOption(r, fn) == [r EXCEPT !.biFuncCoefficients = Append(@, fn)]

\* The caller applies WithSimilarityDotMatrix(c) or WithManhattanDistance(c)
\* to the Router it holds.
ApplyOption ==
    /\ router.built
    /\ last.op # "Match"
    /\ Len(router.biFuncCoefficients) < MaxMetrics
    /\ \E fn \in biFuncCoefficient :
         /\ router' = WithOption(router, fn)
         /\ last' = [op |-> "ApplyOption", fn |-> fn]
    /\ UNCHANGED <<store, procVars>>

\* ---------------------------------------------------------------- Match
\* r.Storage.Get(ctx, key) of the store port: a backend fault fails the
\* call; otherwise the in-memory store's Get.
StorageGet(st, ctxDone, fault, key) ==
    IF fault THEN [ok |-> FALSE, vec |-> NoVec] ELSE MemGet(st, ctxDone, key)

\* Whether the context is done at the j-th suspension point of a Match
\* (1: the encode call; i + 1: the i-th retrieval), when it is cancelled
\* before suspension point cancelAt (0: never).
CtxDone(cancelAt, j) == cancelAt # 0 /\ cancelAt <= j

\* The scan without the length test.
neverMismatch(em, queryVec) == FALSE

\* emLen != queryVec.Len()
lengthMismatch(em, queryVec) == Len(em) # Len(queryVec)

\* The comparison with >= in place of >.
improvesOrTies(simScore, bestScore) == simScore >= bestScore

\* simScore > bestScore
improves(simScore, bestScore) == simScore > bestScore

\* The scan's end without the no-route check.
neverNoRoute(bestRouteName) == FALSE

\* bestRouteName == ""
noRouteName(bestRouteName) == bestRouteName = ""

ScanStart ==
    [err |-> ErrNil, bestRouteName |-> "", bestScore |-> 0, gets |-> <<>>]

\* Lines 184-187: the running best is replaced by a strictly better score.
trackBest(acc, cand, simScore) ==
    IF improves(simScore, acc.bestScore)
    THEN [acc EXCEPT !.bestScore = simScore, !.bestRouteName = cand.route]
    ELSE acc

\* Lines 170-183: a failed retrieval returns the error naming the utterance,
\* an embedding of another length is passed over, any other is scored.
afterGet(in, acc, cand, em) ==
    IF ~em.ok
    THEN [acc EXCEPT !.err = [kind |-> "ErrGetEmbedding", text |-> cand.text]]
    ELSE IF lengthMismatch(em.vec, in.queryVec) THEN acc
    ELSE trackBest(acc, cand, computeScore(in.fns, in.queryVec, em.vec))

\* One turn of the scan for the i-th candidate (lines 169-187).
scanTurn(in, acc, cand, i) ==
    afterGet(in, [acc EXCEPT !.gets = Append(@, cand.text)], cand,
             StorageGet(in.st, CtxDone(in.cancelAt, i + 1), in.getFault = i, cand.text))

\* The scan's turn with a failed retrieval passed over (continue).
skipFailure(acc, res) == IF res.err # ErrNil THEN acc ELSE res

scanStepSkipFailure(in, acc, cand, i) == skipFailure(acc, scanTurn(in, acc, cand, i))

\* A turn of the scan; after a return no turn runs.
scanStep(in, acc, cand, i) ==
    IF acc.err # ErrNil THEN acc ELSE scanTurn(in, acc, cand, i)

RECURSIVE scanLoop(_, _, _, _)
scanLoop(in, acc, cands, i) ==
    IF i > Len(cands) THEN acc
    ELSE scanLoop(in, scanStep(in, acc, cands[i], i), cands, i + 1)

\* Lines 190-196: after the scan, no route name set is ErrNoRouteFound
\* carrying the query.
afterScan(utterance, acc) ==
    IF acc.err # ErrNil THEN acc
    ELSE IF noRouteName(acc.bestRouteName)
    THEN [acc EXCEPT !.err = [kind |-> "ErrNoRouteFound", text |-> utterance]]
    ELSE acc

\* Match that scans with the vector a failed encoding left.
afterEncodeScanning(r, st, utterance, sched, encoding) ==
    afterScan(utterance,
              scanLoop([st |-> st, queryVec |-> encoding.vec,
                        fns |-> r.biFuncCoefficients,
                        getFault |-> sched.getFault, cancelAt |-> sched.cancelAt],
                       ScanStart, Flatten(r.Routes), 1))

\* Lines 158-189: a failed encoding returns ErrEncoding carrying the query;
\* otherwise the scan of every utterance of every route.
afterEncode(r, st, utterance, sched, encoding) ==
    IF ~encoding.ok
    THEN [ScanStart EXCEPT !.err = [kind |-> "ErrEncoding", text |-> utterance]]
    ELSE afterScan(utterance,
                   scanLoop([st |-> st, queryVec |-> encoding.vec,
                             fns |-> r.biFuncCoefficients,
                             getFault |-> sched.getFault, cancelAt |-> sched.cancelAt],
                            ScanStart, Flatten(r.Routes), 1))

\* The function Match runs in its errgroup (lines 156-197): encode, scan,
\* then the no-route check.
matchTask(r, st, utterance, sched) ==
    afterEncode(r, st, utterance, sched,
                EncoderEncode(CtxDone(sched.cancelAt, 1), sched.encFault, utterance))

\* Match that returns the named results as the function left them, with the
\* error.
waitResultKeepingBest(run) ==
    [bestRouteName |-> run.bestRouteName,
     bestScore |-> run.bestScore,
     err |-> run.err,
     wrap |-> IF run.err # ErrNil THEN "no route found: " ELSE "",
     gets |-> run.gets,
     runRouteName |-> run.bestRouteName,
     runScore |-> run.bestScore]

\* Lines 198-201: eg.Wait(), then the results: "", 0.0 and the error wrapped
\* (%w) under the text "no route found: ", whatever its kind; or the named
\* results as the function left them (run*).
waitResult(run) ==
    [bestRouteName |-> IF run.err # ErrNil THEN "" ELSE run.bestRouteName,
     bestScore |-> IF run.err # ErrNil THEN 0 ELSE run.bestScore,
     err |-> run.err,
     wrap |-> IF run.err # ErrNil THEN "no route found: " ELSE "",
     gets |-> run.gets,
     runRouteName |-> run.bestRouteName,
     runScore |-> run.bestScore]

\* Router.Match
MatchResult(r, st, utterance, sched) == waitResult(matchTask(r, st, utterance, sched))

\* What the ports and the context do during one Match of a Router with n
\* utterances: nothing; or the context is cancelled before suspension point
\* j; or the embedding port fails; or the store port fails at retrieval k.
Schedules(n) ==
    {[cancelAt |-> 0, encFault |-> FALSE, getFault |-> 0]}
    \cup {[cancelAt |-> j, encFault |-> FALSE, getFault |-> 0] : j \in 1..(n + 1)}
    \cup {[cancelAt |-> 0, encFault |-> TRUE, getFault |-> 0]}
    \cup {[cancelAt |-> 0, encFault |-> FALSE, getFault |-> k] : k \in 1..n}

\* A call during which the ports answered: the embedding port returned the
\* query's vector and the store port did not fail.
PortsAnswer(sched) == ~sched.encFault /\ sched.getFault = 0 /\ sched.cancelAt # 1

\* What the caller holds of the call it made just before (seen: it holds one).
NoneTold == [seen |-> FALSE, bestRouteName |-> "", bestScore |-> 0, err |-> ErrNil]
Told(l) ==
    [seen |-> TRUE, bestRouteName |-> l.res.bestRouteName,
     bestScore |-> l.res.bestScore, err |-> l.res.err]
\* The caller's calls run one after the other: a call follows a reported
\* one, or repeats, once and under a context that stays live, the query of
\* the call just made when the ports answered in that call and answer in
\* this one.
Repeats(l, utterance, sched) ==
    /\ l.op = "Match"
    /\ ~l.prev.seen
    /\ l.utterance = utterance
    /\ PortsAnswer(l.sched)
    /\ PortsAnswer(sched)
    /\ sched.cancelAt = 0
Previous(l, utterance, sched) == IF Repeats(l, utterance, sched) THEN Told(l) ELSE NoneTold

\* Match that keeps the query's embedding in the store.
MatchStoringQuery ==
    /\ router.built
    /\ \E utterance \in QueryTexts :
         \E sched \in Schedules(Len(Flatten(router.Routes))) :
           /\ last.op # "Match" \/ Repeats(last, utterance, sched)
           /\ last' = [op |-> "Match", utterance |-> utterance, sched |-> sched,
                       res |-> MatchResult(router, store, utterance, sched),
                       prev |-> Previous(last, utterance, sched)]
           /\ store' = IF PortsAnswer(sched) /\ ~store.isNil
                       THEN MemSet(store, utterance, Encode(utterance)) ELSE store
    /\ UNCHANGED <<router, procVars>>

\* finding, p, err := router.Match(ctx, query). Match writes neither the
\* Router nor the store.
Match ==
    /\ router.built
    /\ \E utterance \in QueryTexts :
         \E sched \in Schedules(Len(Flatten(router.Routes))) :
           /\ last.op # "Match" \/ Repeats(last, utterance, sched)
           /\ last' = [op |-> "Match", utterance |-> utterance, sched |-> sched,
                       res |-> MatchResult(router, store, utterance, sched),
                       prev |-> Previous(last, utterance, sched)]
    /\ UNCHANGED <<router, store, procVars>>

\* The caller reports the result of its Match: fmt.Println of the error,
\* the score and the route.
Report ==
    /\ last.op = "Match"
    /\ last' = [op |-> "Report"]
    /\ UNCHANGED <<router, store, procVars>>

\* The caller closes the store the Router reads (Close run alone).
CloseStore ==
    /\ router.built
    /\ last.op # "Match"
    /\ ~store.isNil
    /\ store' = MemClose(store)
    /\ last' = [op |-> "Close"]
    /\ UNCHANGED <<router, procVars>>

Init ==
    /\ router = NoRouter
    /\ store = NewStore
    /\ last = [op |-> "none"]
    /\ mu = 0
    /\ pc = [p \in Procs |-> "idle"]
    /\ arg = [p \in Procs |-> NoArg]
    /\ ret = [p \in Procs |-> [out |-> [ok |-> TRUE, vec |-> NoVec], crash |-> ""]]

Next == NewRouter \/ ApplyOption \/ Match \/ Report \/ CloseStore

Spec == Init /\ [][Next]_vars

\* ------------------------------------------- the in-memory store, by steps
\* Goroutines calling Get, Set and Close of one Store. mu is the goroutine
\* holding s.mu (0: free); pc is each goroutine's position in its call.
StoreKeys == {"hi", "x"}
StoreVecs == {<<1, 0>>, <<2>>}
\* What a call left: its results, or the way it ended the program.
Returned(out) == [out |-> out, crash |-> ""]
Fatal == [out |-> [ok |-> FALSE, vec |-> NoVec], crash |-> "fatal error"]
Panic == [out |-> [ok |-> FALSE, vec |-> NoVec], crash |-> "panic"]
Done == [ok |-> TRUE, vec |-> NoVec]

Writing(q) == pc[q] \in {"set_write", "close_write"}

CallGet ==
    \E p \in Procs, key \in StoreKeys :
      /\ pc[p] = "idle"
      /\ pc' = [pc EXCEPT ![p] = "get_read"]
      /\ arg' = [arg EXCEPT ![p] = [key |-> key, vec |-> NoVec]]
      /\ UNCHANGED <<router, store, last, mu, ret>>

\* Get, line 27: the map is read without taking s.mu. A read that runs while
\* another goroutine is writing is a data race: the read returns what the
\* map holds, or the runtime stops the program (concurrent map read and
\* map write).
GetRead ==
    \E p \in Procs :
      /\ pc[p] = "get_read"
      /\ \E out \in {Returned(MemGet(store, FALSE, arg[p].key))}
                    \cup (IF \E q \in Procs \ {p} : Writing(q) THEN {Fatal} ELSE {}) :
           ret' = [ret EXCEPT ![p] = out]
      /\ pc' = [pc EXCEPT ![p] = "idle"]
      /\ arg' = [arg EXCEPT ![p] = NoArg]
      /\ UNCHANGED <<router, store, last, mu>>

CallSet ==
    \E p \in Procs, key \in StoreKeys, vec \in StoreVecs :
      /\ pc[p] = "idle"
      /\ pc' = [pc EXCEPT ![p] = "set_lock"]
      /\ arg' = [arg EXCEPT ![p] = [key |-> key, vec |-> vec]]
      /\ UNCHANGED <<router, store, last, mu, ret>>

\* Set, line 41: s.mu.Lock()
SetLock ==
    \E p \in Procs :
      /\ pc[p] = "set_lock"
      /\ mu = 0
      /\ mu' = p
      /\ pc' = [pc EXCEPT ![p] = "set_write"]
      /\ UNCHANGED <<router, store, last, arg, ret>>

\* Set, lines 42-44: the assignment (a panic on the nil map of a closed
\* store), then the deferred Unlock.
SetWrite ==
    \E p \in Procs :
      /\ pc[p] = "set_write"
      /\ IF store.isNil
         THEN /\ ret' = [ret EXCEPT ![p] = Panic]
              /\ UNCHANGED store
         ELSE /\ store' = MemSet(store, arg[p].key, arg[p].vec)
              /\ ret' = [ret EXCEPT ![p] = Returned(Done)]
      /\ mu' = 0
      /\ pc' = [pc EXCEPT ![p] = "idle"]
      /\ arg' = [arg EXCEPT ![p] = NoArg]
      /\ UNCHANGED <<router, last>>

CallClose ==
    \E p \in Procs :
      /\ pc[p] = "idle"
      /\ pc' = [pc EXCEPT ![p] = "close_check"]
      /\ UNCHANGED <<router, store, last, mu, arg, ret>>

\* Close, lines 51-53: s.store == nil is read without taking s.mu.
CloseCheck ==
    \E p \in Procs :
      /\ pc[p] = "close_check"
      /\ pc' = [pc EXCEPT ![p] = IF store.isNil THEN "idle" ELSE "close_lock"]
      /\ ret' = [ret EXCEPT ![p] = Returned(Done)]
      /\ UNCHANGED <<router, store, last, mu, arg>>

\* Close, line 54: s.mu.Lock()
CloseLock ==
    \E p \in Procs :
      /\ pc[p] = "close_lock"
      /\ mu = 0
      /\ mu' = p
      /\ pc' = [pc EXCEPT ![p] = "close_write"]
      /\ UNCHANGED <<router, store, last, arg, ret>>

\* Close, lines 55-57: s.store = nil, then the deferred Unlock.
CloseWrite ==
    \E p \in Procs :
      /\ pc[p] = "close_write"
      /\ store' = MemClose(store)
      /\ mu' = 0
      /\ pc' = [pc EXCEPT ![p] = "idle"]
      /\ UNCHANGED <<router, last, arg, ret>>

NextStore ==
    \/ CallGet \/ GetRead
    \/ CallSet \/ SetLock \/ SetWrite
    \/ CallClose \/ CloseCheck \/ CloseLock \/ CloseWrite

SpecStore == Init /\ [][NextStore]_vars

\* ===================================================== the properties
\* What the properties read of the state a call left.
Built == last.op = "NewRouter"
Matched == last.op = "Match"
Cands == Flatten(router.Routes)
QueryVec == Encode(last.utterance)
Stored(i) == ~store.isNil /\ Cands[i].text \in DOMAIN store.m
Embedding(i) == store.m[Cands[i].text]
\* The candidates of the query's length, and their scores.
Scored == {i \in DOMAIN Cands : Stored(i) /\ Len(Embedding(i)) = Len(QueryVec)}
ScoreOf(i) == computeScore(router.biFuncCoefficients, QueryVec, Embedding(i))
MaxScoreAt(i) == i \in Scored /\ \A j \in Scored : ScoreOf(j) <= ScoreOf(i)
FirstMaxAt(i) == MaxScoreAt(i) /\ \A j \in Scored : MaxScoreAt(j) => i <= j
\* The query was encoded; the first retrieval that failed, if any.
Encoded == ~last.sched.encFault /\ last.sched.cancelAt # 1
GetFails(i) == last.sched.getFault = i \/ ~Stored(i)
FirstGetFailure(k) == k \in DOMAIN Cands /\ GetFails(k) /\ \A j \in 1..(k - 1) : ~GetFails(j)
AllRetrieved == \A i \in DOMAIN Cands : ~GetFails(i)
\* The utterance at which a construction failed (0: none).
FailedAt == IF last.faults.encFailAt # 0 THEN last.faults.encFailAt ELSE last.faults.storeFailAt
BuildTexts == TextsOf(last.routes)

\* C1: the Router NewRouter returns for n scoring options holds exactly the
\* n (function, coefficient) pairs of the options, in the order given.
C1_OptionsBecomeMetrics ==
    (Built /\ last.err = ErrNil) => router.biFuncCoefficients = last.opts

\* C2: when Match succeeds, the returned score is the maximum score over the
\* candidates of the query's length, and the returned route owns the first
\* candidate in scan order with that score; a later tie does not replace it.
C2_FirstMaxWins ==
    (Matched /\ last.res.err = ErrNil) =>
        \E i \in Scored :
            /\ FirstMaxAt(i)
            /\ last.res.bestScore = ScoreOf(i)
            /\ last.res.bestRouteName = Cands[i].route

\* A Match that succeeded with two candidates of different routes tied at
\* the maximum.
C2_Witness ==
    /\ Matched
    /\ last.res.err = ErrNil
    /\ \E i, j \in Scored : /\ FirstMaxAt(i)
                            /\ i < j
                            /\ ScoreOf(j) = ScoreOf(i)
                            /\ Cands[j].route # Cands[i].route
                            /\ Cands[j].route # ""

\* C3: when the embedding port or the store fails at the k-th utterance,
\* construction returns a failure and no Router, calls encode for the first
\* k utterances only and the store for no utterance after the k-th, and the
\* store holds writes for the utterances before the k-th only.
C3_AbortAtFirstFailure ==
    (Built /\ FailedAt # 0) =>
        /\ last.err # ErrNil
        /\ ~router.built
        /\ last.encodeCalls = SubSeq(BuildTexts, 1, FailedAt)
        /\ last.storeCalls = SubSeq(BuildTexts, 1,
                                    IF last.faults.storeFailAt # 0 THEN FailedAt ELSE FailedAt - 1)
        /\ last.writes = SubSeq(BuildTexts, 1, FailedAt - 1)
        /\ DOMAIN store.m = {BuildTexts[i] : i \in 1..(FailedAt - 1)}

\* A construction that failed at its second utterance of three.
C3_Witness ==
    /\ Built
    /\ FailedAt = 2
    /\ Len(BuildTexts) = 3
    /\ last.writes = <<BuildTexts[1]>>

\* C4: the failure construction returns carries the text of the utterance
\* that failed, for an encoding failure as for a storing failure.
C4_FailureNamesUtterance ==
    (Built /\ FailedAt # 0) => last.err.text = BuildTexts[FailedAt]

\* C5: a Match whose context is cancelled before the encode call or before
\* a retrieval of the scan returns a failure.
C5_CancelledMatchFails ==
    (Matched /\ last.sched.cancelAt # 0) => last.res.err # ErrNil

\* C6: no Get reads the map while a Set or a Close holding the lock is
\* writing it.
C6_NoReadDuringWrite ==
    \A p, q \in Procs : ~(pc[p] = "get_read" /\ Writing(q))

AltVals == -2..2
AltVecs(len) == [1..len -> AltVals]
OtherLength(st, n) == {k \in DOMAIN st.m : Len(st.m[k]) # n}
AltStores(st, n) ==
    {[st EXCEPT !.m = [k \in DOMAIN st.m |-> IF k \in OtherLength(st, n) THEN alt[k] ELSE st.m[k]]] :
        alt \in {f \in [OtherLength(st, n) -> UNION {AltVecs(Len(st.m[k])) : k \in OtherLength(st, n)}] :
                    \A k \in OtherLength(st, n) : Len(f[k]) = Len(st.m[k])}}

\* C8: a stored embedding of another length than the query's does not
\* affect Match: with other component values in such embeddings, the same
\* call returns the same route name, score and error.
C8_OtherLengthIgnored ==
    (Matched /\ ~store.isNil) =>
        \A alt \in AltStores(store, Len(QueryVec)) :
            MatchResult(router, alt, last.utterance, last.sched) = last.res

\* A Match that returned a route from a store holding an embedding of
\* another length than the query's.
C8_Witness ==
    /\ Matched
    /\ last.res.err = ErrNil
    /\ \E i \in DOMAIN Cands : Stored(i) /\ Len(Embedding(i)) # Len(QueryVec)
    /\ Cardinality(AltStores(store, Len(QueryVec))) > 1

\* C9: when the retrieval of an utterance's embedding fails, Match returns
\* ErrGetEmbedding naming that utterance, has retrieved every utterance up
\* to it and none after it, and returns no route and no score, whatever the
\* running best was.
C9_RetrievalFailureAborts ==
    (Matched /\ Encoded) =>
        \A k \in DOMAIN Cands :
            FirstGetFailure(k) =>
                /\ last.res.err = [kind |-> "ErrGetEmbedding", text |-> Cands[k].text]
                /\ last.res.gets = SubSeq(TextsOf(router.Routes), 1, k)
                /\ last.res.bestRouteName = ""
                /\ last.res.bestScore = 0

\* A Match whose retrieval failed at a utterance that is not the last, after
\* an earlier candidate had scored above 0.
C9_Witness ==
    /\ Matched
    /\ Encoded
    /\ \E k \in DOMAIN Cands : FirstGetFailure(k) /\ k < Len(Cands)
    /\ last.res.runScore > 0
    /\ last.res.runRouteName # ""
    /\ last.res.err.kind = "ErrGetEmbedding"

\* C10: after a scan without encoding or retrieval failure, Match returns
\* ErrNoRouteFound naming the query if no candidate of the query's length
\* scored above 0 (so whenever every stored embedding is of another
\* length); and with non-empty route names it does not return
\* ErrNoRouteFound if some candidate of the query's length scored above 0.
C10_NoRouteFound ==
    (Matched /\ Encoded /\ AllRetrieved) =>
        /\ (\A i \in Scored : ScoreOf(i) <= 0) =>
               last.res.err = [kind |-> "ErrNoRouteFound", text |-> last.utterance]
        /\ (/\ \A i \in DOMAIN Cands : Cands[i].route # ""
            /\ \E i \in Scored : ScoreOf(i) > 0) =>
               last.res.err.kind # "ErrNoRouteFound"

\* A Match under a configured metric that found every stored embedding of
\* another length than the query's, and returned ErrNoRouteFound.
C10_Witness ==
    /\ Matched
    /\ Encoded /\ AllRetrieved
    /\ router.biFuncCoefficients # <<>>
    /\ Scored = {}
    /\ last.res.err = [kind |-> "ErrNoRouteFound", text |-> last.utterance]

\* C11: with the routes, the metric list and the store as they are and the
\* ports answering, a Match of the query the caller matched just before
\* returns the same route name, score and error as that call did; and no
\* Match changes the Router's routes, its metric list or the store.
C11_RepeatedMatchSame ==
    [][last'.op = "Match" =>
         /\ router' = router /\ store' = store
         /\ last'.prev.seen =>
              /\ last'.res.bestRouteName = last'.prev.bestRouteName
              /\ last'.res.bestScore = last'.prev.bestScore
              /\ last'.res.err = last'.prev.err]_vars
\* A query matched to a route is matched again.
C11_Witness ==
    Matched /\ last.prev.seen /\ last.res.err = ErrNil /\ last.res.bestScore > 0

\* C12: a Get of a text that a Set has stored, with no Set of that text and
\* no Close under way or since, returns the embedding the store holds for
\* the text, and no error.
C12_GetReturnsStored ==
    [][\A p \in Procs :
         (/\ pc[p] = "get_read" /\ pc'[p] = "idle"
          /\ ~store.isNil /\ arg[p].key \in DOMAIN store.m
          /\ \A q \in Procs \ {p} :
                /\ pc[q] \notin {"close_check", "close_lock", "close_write"}
                /\ pc[q] \in {"set_lock", "set_write"} => arg[q].key # arg[p].key)
         => ret'[p] = Returned([ok |-> TRUE, vec |-> store.m[arg[p].key]])]_vars

\* C13: when the encoding of the query fails, Match returns ErrEncoding
\* naming the query (wrapped, as every error of Match is), which is neither
\* ErrNoRouteFound nor ErrGetEmbedding, and has made no retrieval from the
\* store.
C13_EncodingFailure ==
    (Matched /\ ~Encoded) =>
        /\ last.res.err = [kind |-> "ErrEncoding", text |-> last.utterance]
        /\ last.res.wrap = "no route found: "
        /\ last.res.err.kind \notin {"ErrNoRouteFound", "ErrGetEmbedding"}
        /\ last.res.gets = <<>>

\* A Match whose encoding failed, of a Router whose store holds the
\* embeddings of its utterances.
C13_Witness ==
    /\ Matched
    /\ last.sched.encFault
    /\ \A i \in DOMAIN Cands : Stored(i)
    /\ Len(Cands) > 1
    /\ last.res.err.kind = "ErrEncoding"


\* The k-th metric's value for candidate i times its coefficient, and the
\* sum of the first n of them.
Weighted(k, i) ==
    router.biFuncCoefficients[k].Coefficient
        * CallFunc(router.biFuncCoefficients[k], QueryVec, Embedding(i))
RECURSIVE WeightedSum(_, _)
WeightedSum(n, i) == IF n = 0 THEN 0 ELSE WeightedSum(n - 1, i) + Weighted(n, i)

\* C14: the score of every candidate of the query's length is the sum over
\* the metric list of coefficient times metric value (the sum of the two
\* weighted values when the list has two metrics), and the score a
\* successful Match returns is the greatest of these sums.
C14_ScoreIsWeightedSum ==
    Matched =>
        /\ \A i \in Scored :
              /\ ScoreOf(i) = WeightedSum(Len(router.biFuncCoefficients), i)
              /\ Len(router.biFuncCoefficients) = 2 =>
                    ScoreOf(i) = Weighted(1, i) + Weighted(2, i)
        /\ (last.res.err = ErrNil) =>
              /\ \E i \in Scored :
                    last.res.bestScore = WeightedSum(Len(router.biFuncCoefficients), i)
              /\ \A i \in Scored :
                    WeightedSum(Len(router.biFuncCoefficients), i) <= last.res.bestScore

\* A Match that succeeded under two metrics with coefficients of opposite
\* signs, where the negative one lowered a candidate's score.
C14_Witness ==
    /\ Matched
    /\ last.res.err = ErrNil
    /\ Len(router.biFuncCoefficients) = 2
    /\ router.biFuncCoefficients[1].Coefficient # router.biFuncCoefficients[2].Coefficient
    /\ \E i \in Scored, k \in 1..2 : Weighted(k, i) < 0


\* The port calls of a construction over texts that met no failure: for
\* every text in order, Encode then Store.
RECURSIVE EncodeThenStore(_)
EncodeThenStore(texts) ==
    IF texts = <<>> THEN <<>>
    ELSE <<[port |-> "Encode", text |-> Head(texts)], [port |-> "Store", text |-> Head(texts)]>>
         \o EncodeThenStore(Tail(texts))
\* The store holds, under the text of every utterance of routes and under
\* no other key, the vector the embedding port returns for it.
HoldsEmbeddings(st, routes) ==
    /\ ~st.isNil
    /\ DOMAIN st.m = Range(TextsOf(routes))
    /\ \A t \in DOMAIN st.m : st.m[t] = Encode(t)

\* C15 as stated: after a construction that succeeded, no Match on the
\* store as construction left it returns ErrGetEmbedding.
C15_NeverRetrievalFailure ==
    (Matched /\ ~store.isNil) => last.res.err.kind # "ErrGetEmbedding"

\* C15, amended: a construction that succeeded called, for every utterance
\* in route order then utterance order, Encode and then Store, and left in
\* the store under every utterance's text the vector the embedding port
\* returned; and a Match on the store as construction left it returns
\* ErrGetEmbedding only if the store port itself fails a retrieval.
C15_StoreHoldsEmbeddings ==
    /\ (Built /\ last.err = ErrNil) =>
          /\ last.calls = EncodeThenStore(BuildTexts)
          /\ HoldsEmbeddings(store, last.routes)
    /\ (Matched /\ ~store.isNil) =>
          /\ HoldsEmbeddings(store, router.Routes)
          /\ last.sched.getFault = 0 => last.res.err.kind # "ErrGetEmbedding"

\* A Match that retrieved the embeddings of three utterances of two routes
\* from the store as construction left it.
C15_Witness ==
    /\ Matched
    /\ ~store.isNil
    /\ Len(router.Routes) = 2
    /\ Len(Cands) = 3
    /\ PortsAnswer(last.sched)
    /\ last.res.gets = TextsOf(router.Routes)

\* C16: every utterance of the routes of the Router a successful
\* construction returned carries the embedding computed for its text.
C16_UtterancesCarryEmbeddings ==
    (Built /\ last.err = ErrNil) =>
        \A r \in DOMAIN router.Routes :
            \A u \in DOMAIN router.Routes[r].Utterances :
                router.Routes[r].Utterances[u].Embed
                    = Encode(router.Routes[r].Utterances[u].Utterance)

\* C17: a Match that returns an error returns the empty route name and the
\* score 0, whatever running best the scan had recorded; a Match that
\* returns no error returns a non-empty route name and a score above 0.
C17_ErrorClearsResult ==
    Matched =>
        /\ last.res.err # ErrNil => (last.res.bestRouteName = "" /\ last.res.bestScore = 0)
        /\ last.res.err = ErrNil => (last.res.bestRouteName # "" /\ last.res.bestScore > 0)

\* A Match that returned an error, the empty name and the score 0 after its
\* scan had recorded a named route and a score above 0.
C17_Witness ==
    /\ Matched
    /\ last.res.err # ErrNil
    /\ last.res.runRouteName # ""
    /\ last.res.runScore > 0
    /\ last.res.bestRouteName = ""
    /\ last.res.bestScore = 0

====
